---------------------------- MODULE Spec2Model ----------------------------
(***************************************************************************)
(* Model of Spooky-Labs/Course-1:                                          *)
(*   src/agent/agent.py  Agent        the per-bar signal policy            *)
(*   src/runner.py       run_backtest the run orchestrator / result reducer*)
(*                       __main__     serialisation and exit status        *)
(*                                                                         *)
(* Numbers.  Python floats are modelled by exact integers: a confidence    *)
(* and the threshold are in hundredths (0.6 is 60), position_size is in    *)
(* hundredths (0.15 is 15), prices and cash are whole currency units.      *)
(***************************************************************************)
EXTENDS Integers, Sequences, FiniteSets, TLC

\* ------------------------------------------------------------- bounds ---
\* number of data feeds (lines of symbols.txt)
NumData == 2
\* number of bars every feed holds
MaxBars == 11
\* nesting depth of the analyzer outputs handed to safe_get
MaxDepth == 2
\* longest key path handed to safe_get
MaxPath == 3

\* -------------------------------------------------- program constants ---
\* Agent.params
seq_length == 10
threshold == 60
position_size == 15
STARTING_CASH == 10000

Datas == 1..NumData

\* the closes a data file may hold: a cheap and an expensive instrument
Closes == {100, 2000}
\* a data feed is a fixed file: one close per bar
Feeds == {[t \in 1..MaxBars |-> c] : c \in Closes}

\* what the classifier returns: argmax class and its probability (hundredths)
Preds == {0, 1, 2}
Confs == {60, 61}
ClassifierOutputs == [pred : Preds, conf : Confs]

\* a position size the engine may report that the policy did not open
ExtSizes == {0, 5}

\* ------------------------------------------------------ Python values ---
PyNone == [k |-> "none"]
\* float('nan')
PyNaN == [k |-> "nan"]
PyNum(n) == [k |-> "num", n |-> n]
\* a dict, and an object that is no dict (read with getattr)
PyDict(m) == [k |-> "dict", m |-> m]
PyObj(m) == [k |-> "obj", m |-> m]
NoItems == [x \in {} |-> PyNone]

\* val.get(k) on a dict: None when the key is absent
DictGet(val, key) == IF key \in DOMAIN val.m THEN val.m[key] ELSE PyNone

\* getattr(val, k, None): numbers and NaN carry none of the key names
GetAttr(val, key) ==
  IF val.k = "obj" /\ key \in DOMAIN val.m THEN val.m[key] ELSE PyNone

\* if isinstance(val, float) and math.isnan(val): return default
NanToDefault_Dropped(val, default) == val
NanToDefault(val, default) == IF val.k = "nan" THEN default ELSE val

\* the loop `for k in keys` of safe_get, from the i-th key on
RECURSIVE SafeGetLoop(_, _, _, _)
SafeGetLoop(val, keys, i, default) ==
  IF i > Len(keys) THEN NanToDefault(val, default)
  ELSE LET nxt == IF val.k = "dict" THEN DictGet(val, keys[i])
                  ELSE GetAttr(val, keys[i])
       IN IF nxt = PyNone THEN default
          ELSE SafeGetLoop(nxt, keys, i + 1, default)

\* if not isinstance(keys, (list, tuple)): keys = [keys]
\* a keys argument is [list |-> TRUE, items |-> <<..>>] or a bare key
\* [list |-> FALSE, items |-> "key"]
AsList(keys) == IF keys.list THEN keys.items ELSE <<keys.items>>
KeyPath(items) == [list |-> TRUE, items |-> items]
OneKey(key) == [list |-> FALSE, items |-> key]

safe_get(analysis, keys, default) ==
  IF analysis = PyNone THEN default
  ELSE SafeGetLoop(analysis, AsList(keys), 1, default)

\* ------------------------------------- run_backtest: the result record ---
\* a Python float that a true division produced, as a fraction in lowest
\* terms with a positive denominator
RECURSIVE Gcd(_, _)
Gcd(a, b) == IF b = 0 THEN a ELSE Gcd(b, a % b)
Abs(n) == IF n < 0 THEN -n ELSE n
PyFloat(num, den) ==
  LET g == Gcd(Abs(num), Abs(den))
      sgn == IF den < 0 THEN -1 ELSE 1
  IN [k |-> "float", num |-> sgn * (num \div g), den |-> sgn * (den \div g)]
PyStr(text) == [k |-> "str", s |-> text]
PyList(items) == [k |-> "list", items |-> items]

IsNumber(v) == v.k \in {"num", "float"}
Numer(v) == IF v.k = "num" THEN v.n ELSE v.num
Denom(v) == IF v.k = "num" THEN 1 ELSE v.den

\* the outcome of evaluating an expression: a value or an exception
Ok(v) == [exc |-> "", val |-> v]
Raise(e) == [exc |-> e, val |-> PyNone]
TypeErrorGt == "'>' not supported between instances of 'NoneType' and 'int'"
TypeErrorDiv == "unsupported operand type(s) for /"
ZeroDivision == "division by zero"

\* a > 0
PyGtZero(a) == IF IsNumber(a) THEN Ok(Numer(a) > 0) ELSE Raise(TypeErrorGt)
\* a != 0
PyNeZero(a) == ~(IsNumber(a) /\ Numer(a) = 0)
\* a / b
PyTrueDiv(a, b) ==
  IF ~(IsNumber(a) /\ IsNumber(b)) THEN Raise(TypeErrorDiv)
  ELSE IF Numer(b) = 0 THEN Raise(ZeroDivision)
  ELSE Ok(PyFloat(Numer(a) * Denom(b), Denom(a) * Numer(b)))
\* a * 100, a - b and abs(a) on numbers
PyTimes100(a) == PyFloat(Numer(a) * 100, Denom(a))
PyMinus(a, b) == PyNum(a.n - b.n)
PyAbs(a) == IF a.k = "num" THEN PyNum(Abs(a.n)) ELSE PyFloat(Abs(a.num), a.den)

\* ((final_value - initial_value) / initial_value) * 100 if initial_value != 0 else 0
PortfolioReturnPct(initial_value, final_value) ==
  IF PyNeZero(initial_value)
  THEN LET q == PyTrueDiv(PyMinus(final_value, initial_value), initial_value)
       IN IF q.exc # "" THEN q ELSE Ok(PyTimes100(q.val))
  ELSE Ok(PyNum(0))

\* (safe_get(.., ['won','total'], 0) / safe_get(.., ['total','closed'], 1) * 100)
\*     if safe_get(trade_analysis, ['total', 'closed']) > 0 else 0
WinRatePct(trade_analysis) ==
  LET cond == PyGtZero(safe_get(trade_analysis, KeyPath(<<"total", "closed">>), PyNone))
  IN IF cond.exc # "" THEN Raise(cond.exc)
     ELSE IF cond.val
     THEN LET q == PyTrueDiv(safe_get(trade_analysis, KeyPath(<<"won", "total">>), PyNum(0)),
                             safe_get(trade_analysis, KeyPath(<<"total", "closed">>), PyNum(1)))
          IN IF q.exc # "" THEN q ELSE Ok(PyTimes100(q.val))
     ELSE Ok(PyNum(0))

\* abs(safe_get(.., ['won','pnl','total'], 0) / safe_get(.., ['lost','pnl','total'], 1))
\*     if safe_get(trade_analysis, ['lost', 'pnl5', 'total']) != 0 else None
ProfitFactor(trade_analysis) ==
  IF PyNeZero(safe_get(trade_analysis, KeyPath(<<"lost", "pnl5", "total">>), PyNone))
  THEN LET q == PyTrueDiv(safe_get(trade_analysis, KeyPath(<<"won", "pnl", "total">>), PyNum(0)),
                          safe_get(trade_analysis, KeyPath(<<"lost", "pnl", "total">>), PyNum(1)))
       IN IF q.exc # "" THEN q ELSE Ok(PyAbs(q.val))
  ELSE Ok(PyNone)

\* results_data["results"] = {...}: the entries are evaluated in the order
\* written, and the first exception ends the evaluation.  The entries kept
\* are the portfolio values and the trade statistics; the others are plain
\* safe_get lookups.
BuildResults(trade_analysis, initial_value, final_value) ==
  LET ret == PortfolioReturnPct(initial_value, final_value)
      win == WinRatePct(trade_analysis)
      pf == ProfitFactor(trade_analysis)
  IN IF ret.exc # "" THEN Raise(ret.exc)
     ELSE IF win.exc # "" THEN Raise(win.exc)
     ELSE IF pf.exc # "" THEN Raise(pf.exc)
     ELSE Ok(PyDict(
       [initial_value |-> initial_value,
        final_value |-> final_value,
        portfolio_return_pct |-> ret.val,
        portfolio_net_pnl |-> PyMinus(final_value, initial_value),
        total_trades |-> safe_get(trade_analysis, KeyPath(<<"total", "total">>), PyNum(0)),
        trades_open |-> safe_get(trade_analysis, KeyPath(<<"total", "open">>), PyNum(0)),
        trades_closed |-> safe_get(trade_analysis, KeyPath(<<"total", "closed">>), PyNum(0)),
        win_trades |-> safe_get(trade_analysis, KeyPath(<<"won", "total">>), PyNum(0)),
        loss_trades |-> safe_get(trade_analysis, KeyPath(<<"lost", "total">>), PyNum(0)),
        win_rate_pct |-> win.val,
        profit_factor |-> pf.val]))

\* the values safe_get is applied to: leaves, and dicts and objects of at
\* most one item (a path reads one key of each level)
SGKeys == {"a", "b"}
SGLeaves == {PyNone, PyNaN, PyNum(0), PyNum(7)}
RECURSIVE SGValues(_)
SGValues(n) ==
  IF n = 0 THEN SGLeaves
  ELSE LET sub == SGValues(n - 1) IN
       SGLeaves \cup {PyDict(NoItems), PyObj(NoItems)}
         \cup {PyDict(key :> v) : key \in SGKeys, v \in sub}
         \cup {PyObj(key :> v) : key \in SGKeys, v \in sub}

RECURSIVE SGPaths(_)
SGPaths(n) ==
  IF n = 0 THEN {<<>>}
  ELSE LET shorter == SGPaths(n - 1) IN
       shorter \cup {Append(q, key) : q \in shorter, key \in SGKeys}

SGKeyArgs == {KeyPath(q) : q \in SGPaths(MaxPath)} \cup {OneKey(key) : key \in SGKeys}
SGDefaults == {PyNone, PyNum(0)}

VARIABLES
  sg_analysis,    \* safe_get's argument analysis
  sg_keys,        \* safe_get's argument keys
  sg_default,     \* safe_get's argument default
  sg_called,      \* safe_get has returned
  sg_result       \* what it returned

sgVars == <<sg_analysis, sg_keys, sg_default, sg_called, sg_result>>

VARIABLES
  feed,           \* self.datas[d]: the closes of the data file of d
  bar,            \* the engine's clock: index of the current bar
  phase,          \* "broker": the engine is between bars; "next": next() is due
  status,         \* "running", or "raised" once next() let an exception out
  lookback,       \* d.lookback
  position,       \* self.getposition(d).size
  cash,           \* self.broker.getcash()
  pending,        \* order intents handed to the engine by the last next()
  seen,           \* per data, what the last next() did; its pred field is
                  \* self.model_signals[i], which the program never reads
  sized,          \* history: per data, the sizes the first branch computed
  everAbove,      \* history: some classifier output had conf > threshold
  everIssued      \* history: some order intent was issued

simVars == <<feed, bar, phase, status, lookback, position,
             cash, pending, seen, sized, everAbove, everIssued>>

\* the state of run_backtest and __main__
VARIABLES
  symbols,        \* the lines of symbols.txt
  output_dir,     \* os.environ.get('OUTPUT_DIR'), "" when unset
  engine_error,   \* str(e) of the exception the engine raises in setup or
                  \* run (a missing data file, an error in next()), "" if none
  trade_analysis, \* strategyResult.analyzers.trades.get_analysis()
  final_value,    \* cerebro.broker.getvalue() after the run
  rpc,            \* where __main__ is: "run", "output", "except", "exit", "done"
  final_results,  \* __main__'s final_results
  exit_code,      \* __main__'s exit_code
  exc,            \* str() of the exception __main__'s try block is unwinding
  results_data,   \* run_backtest's local results_data when it was left
  rb_raised,      \* history: run_backtest was left by an exception
  emitted,        \* the JSON documents written to the file or to stdout
  exit_status     \* the status the process ended with, -1 while it runs

runVars == <<symbols, output_dir, engine_error, trade_analysis, final_value,
             rpc, final_results, exit_code, exc, results_data, rb_raised,
             emitted, exit_status>>

\* --------------------------------------------------------- Agent.next ---
NoSize == [bound |-> FALSE, val |-> 0]
NotSeen == [reached |-> FALSE, classified |-> FALSE, pred |-> 0, conf |-> 0,
            raised |-> FALSE, first |-> FALSE, second |-> FALSE]

\* int(self.broker.getcash() * self.params.position_size / d.close[0])
ComputeSize(c, price) == (c * position_size) \div (100 * price)

\* if len(d.lookback) < self.params.seq_length: continue
TooShort_OffByOne(lb) == Len(lb) < seq_length - 1
TooShort(lb) == Len(lb) < seq_length

\* conf > self.params.threshold
Confident_Inclusive(conf) == conf >= threshold
Confident(conf) == conf > threshold

\* self.close(data=d), the call the first branch makes
FirstBranchOrder_Buy(d, sz) == [kind |-> "buy", data |-> d, size |-> sz]
FirstBranchOrder(d, sz) == [kind |-> "close", data |-> d, size |-> 0]

\* self.buy(data=d, size=size), the call the second branch makes
SecondBranchOrder(d, sz) == [kind |-> "buy", data |-> d, size |-> sz]

\* One iteration of the loop `for i, d in enumerate(self.datas)`.
\* st carries what the loop carries: the local variable `size`, the
\* intents issued so far and whether an exception has ended the call.
LoopBody(st, d, price, out, pos, c) ==
  LET lb == Append(st.lookback[d], price) IN
  IF st.raised THEN st
  ELSE IF TooShort(lb)
  THEN [st EXCEPT !.lookback[d] = lb,
                  !.seen[d] = [NotSeen EXCEPT !.reached = TRUE]]
  ELSE
    LET base == [NotSeen EXCEPT !.reached = TRUE, !.classified = TRUE,
                                !.pred = out.pred, !.conf = out.conf]
        st1 == [st EXCEPT !.lookback[d] = lb,
                          !.above = st.above \/ out.conf > threshold]
    IN
    IF pos = 0 /\ out.pred = 2 /\ Confident(out.conf)
    THEN LET sz == ComputeSize(c, price) IN
         [st1 EXCEPT !.size = [bound |-> TRUE, val |-> sz],
                     !.sized[d] = st.sized[d] \cup {sz},
                     !.intents = IF sz > 0
                                 THEN Append(st.intents, FirstBranchOrder(d, sz))
                                 ELSE st.intents,
                     !.seen[d] = [base EXCEPT !.first = TRUE]]
    ELSE IF pos # 0 /\ out.pred = 0 /\ Confident(out.conf)
    THEN IF st.size.bound
         THEN [st1 EXCEPT !.intents = Append(st.intents,
                                                SecondBranchOrder(d, st.size.val)),
                          !.seen[d] = [base EXCEPT !.second = TRUE]]
         \* UnboundLocalError: local variable 'size' referenced before assignment
         ELSE [st1 EXCEPT !.raised = TRUE,
                          !.seen[d] = [base EXCEPT !.second = TRUE,
                                                   !.raised = TRUE]]
    ELSE [st1 EXCEPT !.seen[d] = base]

RECURSIVE Loop(_, _, _)
Loop(st, d, outs) ==
  IF d > NumData THEN st
  ELSE Loop(LoopBody(st, d, feed[d][bar], outs[d], position[d], cash), d + 1, outs)

AgentNext ==
  /\ status = "running"
  /\ phase = "next"
  /\ \E outs \in [Datas -> ClassifierOutputs] :
       LET st0 == [size |-> NoSize, intents |-> <<>>, raised |-> FALSE,
                   lookback |-> lookback,
                   seen |-> [d \in Datas |-> NotSeen], sized |-> sized,
                   above |-> everAbove]
           st == Loop(st0, 1, outs)
       IN /\ lookback' = st.lookback
          /\ pending' = st.intents
          /\ seen' = st.seen
          /\ sized' = st.sized
          /\ everAbove' = st.above
          /\ everIssued' = (everIssued \/ st.intents # <<>>)
          /\ status' = IF st.raised THEN "raised" ELSE "running"
  /\ phase' = "broker"
  /\ UNCHANGED <<feed, bar, position, cash>>
  /\ UNCHANGED <<runVars, sgVars>>

\* ------------------------------------------ the simulation collaborator ---
\* The engine executes the intents of the last bar at the new bar's price:
\* close sells the whole position and is a no-op on a flat instrument, buy
\* adds `size` shares when the cash covers them.
Execute(acct, o, price) ==
  IF o.kind = "close"
  THEN [pos |-> [acct.pos EXCEPT ![o.data] = 0],
        cash |-> acct.cash + acct.pos[o.data] * price]
  ELSE IF o.size * price <= acct.cash
       THEN [pos |-> [acct.pos EXCEPT ![o.data] = @ + o.size],
             cash |-> acct.cash - o.size * price]
       ELSE acct

RECURSIVE ExecuteAll(_, _, _)
ExecuteAll(acct, orders, t) ==
  IF orders = <<>> THEN acct
  ELSE ExecuteAll(Execute(acct, Head(orders), feed[Head(orders).data][t]),
                  Tail(orders), t)

EngineAdvance ==
  /\ status = "running"
  /\ phase = "broker"
  /\ bar < MaxBars
  /\ bar' = bar + 1
  /\ LET acct == ExecuteAll([pos |-> position, cash |-> cash], pending, bar + 1)
     IN /\ position' = acct.pos
        /\ cash' = acct.cash
  /\ pending' = <<>>
  /\ seen' = [d \in Datas |-> NotSeen]
  /\ phase' = "next"
  /\ UNCHANGED <<feed, status, lookback, sized, everAbove, everIssued>>
  /\ UNCHANGED <<runVars, sgVars>>

\* A position the policy did not open (another strategy, a manual order),
\* reported by the engine when next() is called.
ExternalTrade ==
  /\ status = "running"
  /\ phase = "next"
  /\ \E d \in Datas, s \in ExtSizes :
       /\ position[d] # s
       /\ position' = [position EXCEPT ![d] = s]
  /\ UNCHANGED <<feed, bar, phase, status, lookback, cash,
                 pending, seen, sized, everAbove, everIssued>>
  /\ UNCHANGED <<runVars, sgVars>>

SimInit ==
  /\ feed \in [Datas -> Feeds]
  /\ bar = 0
  /\ phase = "broker"
  /\ status = "running"
  /\ lookback = [d \in Datas |-> <<>>]
  /\ position = [d \in Datas |-> 0]
  /\ cash = STARTING_CASH
  /\ pending = <<>>
  /\ seen = [d \in Datas |-> NotSeen]
  /\ sized = [d \in Datas |-> {}]
  /\ everAbove = FALSE
  /\ everIssued = FALSE

\* cerebro.broker.getvalue(): cash plus the positions at the current close
RECURSIVE PositionsValue(_)
PositionsValue(d) ==
  IF d = 0 THEN 0
  ELSE position[d] * (IF bar = 0 THEN 0 ELSE feed[d][bar]) + PositionsValue(d - 1)

BrokerValue == cash + PositionsValue(NumData)

\* --------------------------------------------- run_backtest and __main__ ---
start_date == "2023-01-01"
end_date == "2024-12-31"

\* json.dumps(value, default=str): None is null, a dict an object
RECURSIVE JsonDumps(_)
JsonDumps(v) ==
  CASE v.k = "none" -> [j |-> "null"]
    [] v.k = "nan" -> [j |-> "NaN"]
    [] v.k = "num" -> [j |-> "number", num |-> v.n, den |-> 1]
    [] v.k = "float" -> [j |-> "number", num |-> v.num, den |-> v.den]
    [] v.k = "str" -> [j |-> "string", s |-> v.s]
    [] v.k = "list" -> [j |-> "array",
                        items |-> [i \in DOMAIN v.items |-> JsonDumps(v.items[i])]]
    [] OTHER -> [j |-> "object",
                 m |-> [key \in DOMAIN v.m |-> JsonDumps(v.m[key])]]

\* str(final_results) of a dict
StrOfDict(v) == IF DOMAIN v.m = {} THEN "{}" ELSE "{...}"

\* the dict run_backtest starts from
NewResultsData ==
  PyDict([parameters |-> PyDict([symbols |-> PyList([i \in DOMAIN symbols |-> PyStr(<<symbols[i]>>)]),
                                 start_date |-> PyStr(<<start_date>>),
                                 end_date |-> PyStr(<<end_date>>)]),
          results |-> PyDict(NoItems),
          error |-> PyNone])

\* exit_code = 1 in the except block; exit_code = 0 before the try
ExitCodeAfter_AlwaysZero(failed) == 0
ExitCodeAfter(failed) == IF failed THEN 1 ELSE 0

\* final_results = run_backtest(symbols, start_date, end_date, ...)
RunBacktest ==
  /\ rpc = "run"
  /\ LET built == IF engine_error # "" THEN Raise(engine_error)
                  ELSE BuildResults(trade_analysis, PyNum(STARTING_CASH), final_value)
     IN IF built.exc # ""
        THEN \* except Exception as e: results_data["error"] = str(e); raise
             /\ results_data' = [NewResultsData EXCEPT !.m.error = PyStr(<<built.exc>>)]
             /\ rb_raised' = TRUE
             /\ exc' = built.exc
             /\ rpc' = "except"
             /\ UNCHANGED final_results
        ELSE /\ results_data' = [NewResultsData EXCEPT !.m.results = built.val]
             /\ final_results' = results_data'
             /\ rpc' = "output"
             /\ UNCHANGED <<rb_raised, exc>>
  /\ UNCHANGED <<symbols, output_dir, engine_error, trade_analysis, final_value,
                 exit_code, emitted, exit_status>>
  /\ UNCHANGED <<simVars, sgVars>>

\* json.dump to <OUTPUT_DIR>/output.json, or print(json.dumps(..)); either
\* may fail (the directory is missing, the disk is full, the pipe is closed)
MainOutput ==
  /\ rpc = "output"
  /\ \E ok \in BOOLEAN :
       IF ok
       THEN /\ emitted' = Append(emitted,
                 [dest |-> IF output_dir # "" THEN "file" ELSE "stdout",
                  via |-> "dump",
                  doc |-> JsonDumps(final_results)])
            /\ rpc' = "exit"
            /\ UNCHANGED exc
       ELSE /\ exc' = "write failed"
            /\ rpc' = "except"
            /\ UNCHANGED emitted
  /\ UNCHANGED <<symbols, output_dir, engine_error, trade_analysis, final_value,
                 final_results, exit_code, results_data, rb_raised, exit_status>>
  /\ UNCHANGED <<simVars, sgVars>>

\* except Exception as json_e: the fallback document and exit_code = 1
MainExcept ==
  /\ rpc = "except"
  /\ emitted' = Append(emitted,
       [dest |-> "stdout",
        via |-> "fallback",
        doc |-> JsonDumps(PyDict(
          [error |-> PyStr(<<"JSON serialization failed: ", exc>>),
           partial_results |-> PyStr(<<StrOfDict(final_results)>>)]))])
  /\ exit_code' = ExitCodeAfter(TRUE)
  /\ rpc' = "exit"
  /\ UNCHANGED <<symbols, output_dir, engine_error, trade_analysis, final_value,
                 final_results, exc, results_data, rb_raised, exit_status>>
  /\ UNCHANGED <<simVars, sgVars>>

\* sys.exit(exit_code)
SysExit ==
  /\ rpc = "exit"
  /\ exit_status' = exit_code
  /\ rpc' = "done"
  /\ UNCHANGED <<symbols, output_dir, engine_error, trade_analysis, final_value,
                 final_results, exit_code, exc, results_data, rb_raised, emitted>>
  /\ UNCHANGED <<simVars, sgVars>>

\* the trade analyzer's output: a nested mapping in which any item may be
\* absent, None or NaN.  With no trade at all the analyzer holds
\* {total: {total: 0}} only.
Absent == [k |-> "absent"]
Item(key, v) == IF v = Absent THEN NoItems ELSE key :> v
Node(m) == IF DOMAIN m = {} THEN Absent ELSE PyDict(m)
MkTrade(closed, won, wonpnl, lostpnl) ==
  PyDict(("total" :> PyDict(("total" :> (IF closed.k = "num" THEN closed ELSE PyNum(0)))
                            @@ Item("closed", closed)))
         @@ Item("won", Node(Item("total", won)
                             @@ Item("pnl", Node(Item("total", wonpnl)))))
         @@ Item("lost", Node(Item("pnl", Node(Item("total", lostpnl))))))

TradeAnalyses ==
  {MkTrade(c, w, wp, lp) :
     c \in {Absent, PyNone, PyNaN, PyNum(0), PyNum(2)},
     w \in {Absent, PyNum(0), PyNum(1)},
     wp \in {Absent, PyNum(0), PyNum(30)},
     lp \in {Absent, PyNone, PyNum(0), PyNum(-20)}}
  \cup {PyNone, PyDict(NoItems)}

RunInit ==
  /\ symbols \in {<<"AAPL">>, <<"AAPL", "MSFT">>}
  /\ output_dir \in {"", "/out"}
  /\ engine_error \in {"", "data/AAPL.csv not found"}
  /\ trade_analysis \in TradeAnalyses
  /\ final_value \in {PyNum(STARTING_CASH), PyNum(9000)}
  /\ rpc = "run"
  /\ final_results = PyDict(NoItems)
  /\ exit_code = ExitCodeAfter(FALSE)
  /\ exc = ""
  /\ results_data = PyDict(NoItems)
  /\ rb_raised = FALSE
  /\ emitted = <<>>
  /\ exit_status = -1

\* the process has not been started
RunIdle ==
  /\ symbols = <<>>
  /\ output_dir = ""
  /\ engine_error = ""
  /\ trade_analysis = PyNone
  /\ final_value = PyNum(STARTING_CASH)
  /\ rpc = "idle"
  /\ final_results = PyDict(NoItems)
  /\ exit_code = 0
  /\ exc = ""
  /\ results_data = PyDict(NoItems)
  /\ rb_raised = FALSE
  /\ emitted = <<>>
  /\ exit_status = -1

\* ----------------------------------------------------- safe_get alone ---
CallSafeGet ==
  /\ ~sg_called
  /\ sg_called' = TRUE
  /\ sg_result' = safe_get(sg_analysis, sg_keys, sg_default)
  /\ UNCHANGED <<sg_analysis, sg_keys, sg_default>>
  /\ UNCHANGED <<simVars, runVars>>

SGInit ==
  /\ sg_analysis \in SGValues(MaxDepth)
  /\ sg_keys \in SGKeyArgs
  /\ sg_default \in SGDefaults
  /\ sg_called = FALSE
  /\ sg_result = PyNone

SGIdle ==
  /\ sg_analysis = PyNone
  /\ sg_keys = KeyPath(<<>>)
  /\ sg_default = PyNone
  /\ sg_called = FALSE
  /\ sg_result = PyNone

SimIdle ==
  /\ feed = [d \in Datas |-> [t \in 1..MaxBars |-> 100]]
  /\ bar = 0
  /\ phase = "idle"
  /\ status = "idle"
  /\ lookback = [d \in Datas |-> <<>>]
  /\ position = [d \in Datas |-> 0]
  /\ cash = STARTING_CASH
  /\ pending = <<>>
  /\ seen = [d \in Datas |-> NotSeen]
  /\ sized = [d \in Datas |-> {}]
  /\ everAbove = FALSE
  /\ everIssued = FALSE

\* ------------------------------------------------------ specifications ---
vars == <<simVars, runVars, sgVars>>

\* the simulation, the engine reporting any position
Init == SimInit /\ RunIdle /\ SGIdle

Next == EngineAdvance \/ AgentNext \/ ExternalTrade

Spec == Init /\ [][Next]_vars

\* the simulation, the Signal Policy the only source of order intents
NextPolicyOnly == EngineAdvance \/ AgentNext

SpecPolicyOnly == Init /\ [][NextPolicyOnly]_vars

\* the process: run_backtest, the output and the exit status
InitRun == SimIdle /\ RunInit /\ SGIdle

NextRun == RunBacktest \/ MainOutput \/ MainExcept \/ SysExit

SpecRun == InitRun /\ [][NextRun]_vars

\* safe_get applied to every value, key path and default of the bounds
InitSafeGet == SimIdle /\ RunIdle /\ SGInit

NextSafeGet == CallSafeGet

SpecSafeGet == InitSafeGet /\ [][NextSafeGet]_vars

\* ------------------------------------------------ claims: the policy ---
\* the intents of kind k the last next() issued on d
IntentsOn(d, k) ==
  {i \in DOMAIN pending : pending[i].data = d /\ pending[i].kind = k}

\* C1: next() issues no order intent, close or buy, on an instrument whose
\* lookback buffer, the current close appended, holds fewer than seq_length
\* entries, whatever the engine reports as its position.
C1_NoIntentBeforeSeqLength ==
  \A d \in Datas :
    Len(lookback[d]) < seq_length =>
      /\ IntentsOn(d, "close") = {}
      /\ IntentsOn(d, "buy") = {}
      /\ ~seen[d].classified

\* next() ran on a bar that left the buffer one entry short, on an
\* instrument with an open position
C1_Witness ==
  \E d \in Datas :
    /\ seen[d].reached
    /\ Len(lookback[d]) = seq_length - 1
    /\ position[d] # 0

\* C2: as long as no classifier output has had a confidence above the
\* threshold, no order intent has been issued, whatever the predicted class
\* and the position.
C2_NoIntentAtOrBelowThreshold ==
  ~everAbove => (~everIssued /\ pending = <<>>)

\* the classifier was asked with the confidence exactly at the threshold,
\* for class 2 on a flat instrument and for class 0 on a held one
C2_Witness ==
  /\ ~everAbove
  /\ \E d, e \in Datas :
       /\ seen[d].classified /\ seen[d].pred = 2 /\ position[d] = 0
       /\ seen[d].conf = threshold
       /\ seen[e].classified /\ seen[e].pred = 0 /\ position[e] # 0
       /\ seen[e].conf = threshold

\* C8: on an instrument with seq_length entries next() issues exactly the
\* intent of the decision rule: flat, class 2 and confidence above the
\* threshold: one close and no buy; else held, class 0 and confidence above
\* the threshold: one buy; else nothing.
C8_DecisionRule ==
  \A d \in Datas :
    seen[d].classified =>
      LET above == seen[d].conf > threshold
          first == position[d] = 0 /\ seen[d].pred = 2 /\ above
          second == ~first /\ position[d] # 0 /\ seen[d].pred = 0 /\ above
      IN /\ Cardinality(IntentsOn(d, "close")) = (IF first THEN 1 ELSE 0)
         /\ Cardinality(IntentsOn(d, "buy")) = (IF second THEN 1 ELSE 0)

\* C9: a buy intent on d is sized by a value the first branch computed for
\* d itself, on this bar or an earlier one; where the first branch never ran
\* for d there is no buy intent on d.
C9_BuySizedForSameInstrument ==
  \A d \in Datas :
    \A i \in IntentsOn(d, "buy") : pending[i].size \in sized[d]

Child(v, key) ==
  IF v.k \in {"dict", "obj"} /\ key \in DOMAIN v.m THEN v.m[key] ELSE Absent

\* the value n keys down the path, Absent once a key is missing
RECURSIVE ValueAt(_, _, _)
ValueAt(v, path, n) ==
  IF n = 0 THEN v
  ELSE LET u == ValueAt(v, path, n - 1)
       IN IF u = Absent THEN Absent ELSE Child(u, path[n])

SGPath == IF sg_keys.list THEN sg_keys.items ELSE <<sg_keys.items>>

\* a key of the path is missing, or a value on it is None or NaN
SGBroken ==
  \E n \in 0..Len(SGPath) : ValueAt(sg_analysis, SGPath, n) \in {Absent, PyNone, PyNaN}

\* C3: safe_get returns the default when a key of the path is missing or a
\* value met on the path, the analysis included, is None or a NaN float, at
\* any depth; otherwise the value at the end of the path.
C3_SafeGetDefault ==
  sg_called =>
    sg_result = IF SGBroken THEN sg_default
                ELSE ValueAt(sg_analysis, SGPath, Len(SGPath))

\* a NaN met before the end of the path, with a default that is not None
C3_Witness ==
  /\ sg_called
  /\ Len(SGPath) >= 2
  /\ ValueAt(sg_analysis, SGPath, 1) = PyNaN
  /\ sg_default = PyNum(0)
  /\ sg_result = PyNum(0)

\* ------------------------------------------- claims: the result record ---
RanAnalysis == rpc # "run" /\ rpc # "idle" /\ engine_error = ""
ResultField(name) == results_data.m.results.m[name]

\* C4: whenever trades_closed evaluates to 0 (total.closed is 0, or missing
\* or None so that the default 0 applies), run_backtest builds the result
\* record without raising and win_rate_pct is 0.
C4_ZeroClosedZeroWinRate ==
  (/\ RanAnalysis
   /\ safe_get(trade_analysis, KeyPath(<<"total", "closed">>), PyNum(0)) = PyNum(0))
  => (/\ ~rb_raised
      /\ ResultField("win_rate_pct") = PyNum(0))

\* lost.pnl.total as the analyzer holds it, Absent when the path is missing
LostPnlTotal ==
  IF trade_analysis = PyNone THEN Absent
  ELSE ValueAt(trade_analysis, <<"lost", "pnl", "total">>, 3)
WonPnlTotal == safe_get(trade_analysis, KeyPath(<<"won", "pnl", "total">>), PyNum(0))

\* C5: profit_factor is None when lost.pnl.total is 0 or absent, and
\* abs(won.pnl.total / lost.pnl.total) otherwise; computing it never raises
\* a division by zero.
C5_ProfitFactor ==
  RanAnalysis =>
    /\ exc # ZeroDivision
    /\ ~rb_raised =>
         ResultField("profit_factor") =
           IF LostPnlTotal \in {Absent, PyNone, PyNaN, PyNum(0)} THEN PyNone
           ELSE PyAbs(PyTrueDiv(WonPnlTotal, LostPnlTotal).val)

\* ------------------------------------------------ claims: the process ---
Dumped == \E i \in DOMAIN emitted : emitted[i].via = "dump"

\* C6: the process ends with status 0 exactly when run_backtest returned
\* and the result record was written, to <OUTPUT_DIR>/output.json when
\* OUTPUT_DIR is set and to stdout otherwise; every other run ends non-zero.
C6_ExitStatus ==
  rpc = "done" =>
    /\ exit_status = 0 <=> (~rb_raised /\ Dumped)
    /\ \A i \in DOMAIN emitted :
         emitted[i].via = "dump" =>
           /\ emitted[i].dest = (IF output_dir # "" THEN "file" ELSE "stdout")
           /\ emitted[i].doc = JsonDumps(final_results)
           /\ final_results = results_data

\* a run that wrote its record to the file, and one whose write failed
C6_Witness ==
  /\ rpc = "done"
  /\ exit_status = 0
  /\ output_dir # ""
  /\ Dumped

\* C7: every document the process emits has the keys parameters (symbols,
\* start_date, end_date), results and error; after an exception e inside
\* run_backtest the document carries the recorded parameters, error = str(e)
\* and empty results.
C7_EmittedSchema ==
  /\ \A i \in DOMAIN emitted :
       /\ emitted[i].doc.j = "object"
       /\ DOMAIN emitted[i].doc.m = {"parameters", "results", "error"}
       /\ DOMAIN emitted[i].doc.m.parameters.m = {"symbols", "start_date", "end_date"}
  /\ (rb_raised /\ rpc = "done") =>
       \E i \in DOMAIN emitted : emitted[i].doc = JsonDumps(results_data)

==========================================================================
